---- MODULE Spec2Model ----
(***************************************************************************)
(* Chunked upload: the Express example server (src/src/example/server.ts)  *)
(* and the client orchestrator (src/src/ChunkUploadService.ts).            *)
(*                                                                         *)
(* A request handler of the server runs to completion without yielding     *)
(* (it only calls renameSync / readFileSync / unlinkSync), so one handler  *)
(* invocation is one atomic action.  A file's bytes are its positions      *)
(* 1..size, so that a chunk's content tells which byte range it carries.   *)
(***************************************************************************)
EXTENDS Integers, Sequences, FiniteSets, TLC

VARIABLES
    uploads,      \* server.ts:17  the Map uploadId -> upload info
    chunks,       \* the files under uploads/chunks, keyed <<uploadId, chunkIndex>>
    files,        \* the files under uploads/files, in creation order
    last,         \* what the last handled request did (history)
    chunkSize,    \* ChunkUploadService.chunkSize
    maxRetries,   \* ChunkUploadService.maxRetries
    observers,    \* which of onProgress / onChunkComplete / onError were supplied
    call,         \* the running uploadFile / resumeUpload call
    pc,           \* where that call stands
    chunkIndex,   \* loop variable of uploadFile / resumeUpload
    attempt,      \* loop variable of uploadChunkWithRetry
    lastError,    \* uploadChunkWithRetry's lastError
    uploadedBytes,\* uploadFile's / resumeUpload's uploadedBytes
    inflight,     \* fetch requests sent and not yet answered
    trace,        \* what the call did so far, in order (history)
    result        \* the value the call resolved to

serverVars == <<uploads, chunks, files, last>>
clientVars == <<chunkSize, maxRetries, observers, call, pc, chunkIndex, attempt,
                lastError, uploadedBytes, inflight, trace, result>>
vars == <<uploads, chunks, files, last, chunkSize, maxRetries, observers, call, pc,
          chunkIndex, attempt, lastError, uploadedBytes, inflight, trace, result>>

-----------------------------------------------------------------------------
(* Bounds *)

MaxChunks == 2
MaxMerges == 2
MaxFileSize == 3
MaxArrivingSize == 5
MaxChunkSize == 2
MaxRetriesOpt == 4
MaxRetriesEndToEnd == 2
MaxPlanFileSize == 12
MaxPlanChunkSize == 6
MaxNegativeOption == 1

UploadIds == {"u1"}
BothIds == {"u1", "u2"}
FileNames == {"a.bin", "b.txt"}
Payloads == {<<1>>, <<2>>}
Errors == {"network", "status500"}

None == "none"
NoIndex == 0 - 1

\* lastError = null
NoError == [kind |-> None, chunkIndex |-> NoIndex, attempt |-> NoIndex]

NoObservers == [onProgress |-> FALSE, onChunkComplete |-> FALSE, onError |-> FALSE]
AllObservers == [onProgress |-> TRUE, onChunkComplete |-> TRUE, onError |-> TRUE]

Files == [name : FileNames, size : 0 .. MaxFileSize]

\* The files the client is called with: the name plays no part in it.
ClientFiles == {file \in Files : file.name = "a.bin"}

NoCall == [op |-> None, file |-> [name |-> "", size |-> 0], uploadId |-> "",
           completedChunks |-> <<>>]

-----------------------------------------------------------------------------
(* Helpers *)

Range(n) == 0 .. (n - 1)

Min(a, b) == IF a < b THEN a ELSE b

Drop(f, k) == [x \in (DOMAIN f) \ {k} |-> f[x]]

Put(f, k, v) == [x \in (DOMAIN f) \cup {k} |-> IF x = k THEN v ELSE f[x]]

Staged(store, id) == {k[2] : k \in {x \in DOMAIN store : x[1] = id}}

MergeCalls(id) == Cardinality({k \in DOMAIN files : files[k].uploadId = id})

-----------------------------------------------------------------------------
(* Client, pure parts: src/src/ChunkUploadService.ts *)

DefaultChunkSize == 1048576
DefaultMaxRetries == 3

\* options.x || default: an absent option and 0 both take the default.
OrDefault(opt, default) == IF opt = 0 THEN default ELSE opt

\* Math.ceil(a / b) for a >= 0 and b other than 0.
Ceil(a, b) == IF b > 0 THEN 0 - ((0 - a) \div b) ELSE 0 - (a \div (0 - b))

\* The quotient rounded down, and one more chunk for the rest.
calculateTotalChunksFloorPlusOne(fileSize) == (fileSize \div chunkSize) + 1

calculateTotalChunks(fileSize) == Ceil(fileSize, chunkSize)

\* file.slice(start, end): the bytes at positions start+1 .. end of the file.
Slice(file, start, end) ==
    LET s == Min(start, file.size)
        e == Min(end, file.size)
    IN  [k \in 1 .. (e - s) |-> s + k]

ChunkOf(file, i) ==
    LET start == i * chunkSize
        end == Min(start + chunkSize, file.size)
    IN  Slice(file, start, end)

Metadata(file, uploadId, i) ==
    [chunkIndex |-> i, totalChunks |-> calculateTotalChunks(file.size),
     fileName |-> file.name, fileSize |-> file.size,
     chunkSize |-> Len(ChunkOf(file, i)), uploadId |-> uploadId]

\* The multipart body of uploadChunk as the server's handler reads it.
FormData(chunk, metadata) ==
    [uploadId |-> metadata.uploadId, chunkIndex |-> metadata.chunkIndex,
     totalChunks |-> metadata.totalChunks, fileName |-> metadata.fileName,
     fileSize |-> metadata.fileSize, bytes |-> chunk, hasFile |-> TRUE]

\* constructor(options): an absent option is written 0.
ChunkUploadService(options) ==
    [chunkSize |-> OrDefault(options.chunkSize, DefaultChunkSize),
     maxRetries |-> OrDefault(options.maxRetries, DefaultMaxRetries),
     observers |-> options.observers]

ChunkRequest(file, uploadId, i) == FormData(ChunkOf(file, i), Metadata(file, uploadId, i))

-----------------------------------------------------------------------------
(* Server: src/src/example/server.ts *)

NewUpload(req) ==
    [fileName |-> req.fileName, fileSize |-> req.fileSize,
     totalChunks |-> req.totalChunks, receivedChunks |-> {}]

\* The session is set up anew by every chunk request.
InitializeTrackingAlways(req) == Put(uploads, req.uploadId, NewUpload(req))

\* Lines 33-40: the session is set up if the uploadId has none.
InitializeTracking(req) ==
    IF req.uploadId \in DOMAIN uploads THEN uploads
    ELSE Put(uploads, req.uploadId, NewUpload(req))

AllReceived(uploadInfo, req) ==
    Cardinality(uploadInfo.receivedChunks) = req.totalChunks

\* A call of mergeChunks on the file system or the write stream: readFileSync
\* (line 121), writeStream.write (122), unlinkSync (123), writeStream.end (126).
FsOp(op, i) == [op |-> op, index |-> i]

\* The loop of mergeChunks from index i on: each chunk is read, written to the
\* stream and unlinked before the next is read.  readFileSync throws when the chunk
\* file is missing or when the read fails (failAt).
RECURSIVE MergeLoop(_, _, _, _, _, _)
MergeLoop(id, total, i, store, out, failAt) ==
    IF i >= total
    THEN [store |-> store, out |-> out, threw |-> FALSE, ops |-> <<FsOp("end", NoIndex)>>]
    ELSE IF <<id, i>> \notin DOMAIN store \/ i = failAt
         THEN [store |-> store, out |-> out, threw |-> TRUE, ops |-> <<FsOp("read", i)>>]
         ELSE LET rest == MergeLoop(id, total, i + 1, Drop(store, <<id, i>>),
                                    out \o store[<<id, i>>], failAt)
              IN  [rest EXCEPT !.ops = <<FsOp("read", i), FsOp("write", i),
                                         FsOp("unlink", i)>> \o @]

\* mergeChunks walking the chunks from the highest index down.
RECURSIVE MergeLoopDescending(_, _, _, _, _)
MergeLoopDescending(id, i, store, out, failAt) ==
    IF i < 0
    THEN [store |-> store, out |-> out, threw |-> FALSE, ops |-> <<FsOp("end", NoIndex)>>]
    ELSE IF <<id, i>> \notin DOMAIN store \/ i = failAt
         THEN [store |-> store, out |-> out, threw |-> TRUE, ops |-> <<FsOp("read", i)>>]
         ELSE LET rest == MergeLoopDescending(id, i - 1, Drop(store, <<id, i>>),
                                              out \o store[<<id, i>>], failAt)
              IN  [rest EXCEPT !.ops = <<FsOp("read", i), FsOp("write", i),
                                         FsOp("unlink", i)>> \o @]

mergeChunksDescending(id, uploadInfo, store, failAt) ==
    MergeLoopDescending(id, uploadInfo.totalChunks - 1, store, <<>>, failAt)

mergeChunks(id, uploadInfo, store, failAt) ==
    MergeLoop(id, uploadInfo.totalChunks, 0, store, <<>>, failAt)

Idle == [kind |-> None, req |-> None, status |-> 0, completed |-> FALSE,
         merged |-> FALSE, created |-> FALSE, receivedBefore |-> {},
         receivedAfter |-> {}, sessionTotal |-> 0, stagedAtMerge |-> {},
         readFailed |-> FALSE, body |-> None, ops |-> <<>>]

\* The whole registry is cleared when an upload completes.
CompleteUploadClearingAll(id, u2, c1, seen, failAt) ==
    LET m == mergeChunks(id, u2[id], c1, failAt)
        atMerge == [seen EXCEPT !.merged = TRUE, !.stagedAtMerge = Staged(c1, id),
                                !.readFailed = m.threw, !.ops = m.ops]
    IN  /\ chunks' = m.store
        /\ files' = Append(files, [uploadId |-> id, content |-> m.out,
                                   ended |-> ~m.threw])
        /\ IF m.threw
           THEN /\ uploads' = u2
                /\ last' = [atMerge EXCEPT !.status = 500]
           ELSE /\ uploads' = <<>>
                /\ last' = [atMerge EXCEPT !.status = 200, !.completed = TRUE]

\* Lines 50-61 when the completeness test passed: mergeChunks runs, and
\* uploads.delete and the completion response follow only if it returned.
\* failAt is the index whose readFileSync fails (NoIndex: none does).
CompleteUpload(id, u2, c1, seen, failAt) ==
    LET m == mergeChunks(id, u2[id], c1, failAt)
        atMerge == [seen EXCEPT !.merged = TRUE, !.stagedAtMerge = Staged(c1, id),
                                !.readFailed = m.threw, !.ops = m.ops]
    IN  /\ chunks' = m.store
        /\ files' = Append(files, [uploadId |-> id, content |-> m.out,
                                   ended |-> ~m.threw])
        /\ IF m.threw
           THEN /\ uploads' = u2
                /\ last' = [atMerge EXCEPT !.status = 500]
           ELSE /\ uploads' = Drop(u2, id)
                /\ last' = [atMerge EXCEPT !.status = 200, !.completed = TRUE]

\* app.post('/upload'): one whole handler invocation.
ReceiveChunk(req, FailAts) ==
    LET id == req.uploadId
        had == id \in DOMAIN uploads
        u1 == InitializeTracking(req)
        before == u1[id].receivedChunks
        base == [Idle EXCEPT !.kind = "chunk", !.req = req, !.created = ~had,
                             !.receivedBefore = before, !.receivedAfter = before,
                             !.sessionTotal = u1[id].totalChunks]
    IN  IF ~req.hasFile
        THEN \* req.file is undefined: line 46 throws, after line 34 ran
             /\ uploads' = u1
             /\ UNCHANGED <<chunks, files>>
             /\ last' = [base EXCEPT !.status = 500]
        ELSE
          LET c1 == Put(chunks, <<id, req.chunkIndex>>, req.bytes)
              u2 == [u1 EXCEPT ![id].receivedChunks = @ \cup {req.chunkIndex}]
              seen == [base EXCEPT !.receivedAfter = u2[id].receivedChunks]
          IN  IF AllReceived(u2[id], req)
              THEN \E failAt \in FailAts : CompleteUpload(id, u2, c1, seen, failAt)
              ELSE /\ uploads' = u2
                   /\ chunks' = c1
                   /\ UNCHANGED files
                   /\ last' = [seen EXCEPT !.status = 200]

\* The fileSize that the requests for a file name carry.
SizeOf(fileName) == IF fileName = "a.bin" THEN MaxFileSize ELSE MaxFileSize - 1

ChunkRequests ==
    {req \in [uploadId : UploadIds, chunkIndex : 0 .. MaxChunks,
              totalChunks : 1 .. MaxChunks, fileName : FileNames,
              fileSize : {MaxFileSize - 1, MaxFileSize}, bytes : Payloads,
              hasFile : {TRUE}] :
        req.fileSize = SizeOf(req.fileName)}

\* A request whose multipart body has no 'chunk' part.
NoFileRequests ==
    {req \in [uploadId : UploadIds, chunkIndex : {0}, totalChunks : 1 .. MaxChunks,
              fileName : FileNames, fileSize : {MaxFileSize - 1, MaxFileSize},
              bytes : {<<>>}, hasFile : {FALSE}] :
        req.fileSize = SizeOf(req.fileName)}

PostUpload ==
    /\ Len(files) < MaxMerges
    /\ \E req \in ChunkRequests \cup NoFileRequests :
          ReceiveChunk(req, {NoIndex} \cup Range(MaxChunks))
    /\ UNCHANGED clientVars

\* (receivedChunks.size / totalChunks) * 100 of line 94, as a fraction.
Progress(uploadInfo) ==
    [num |-> Cardinality(uploadInfo.receivedChunks) * 100, den |-> uploadInfo.totalChunks]

\* The answer of app.get('/upload-status/:uploadId'), lines 80-95.
StatusOf(id) ==
    IF id \notin DOMAIN uploads
    THEN [status |-> 404, body |-> [success |-> FALSE, message |-> "Upload not found"]]
    ELSE [status |-> 200,
          body |-> [success |-> TRUE, uploadId |-> id,
                    totalChunks |-> uploads[id].totalChunks,
                    receivedChunks |-> uploads[id].receivedChunks,
                    progress |-> Progress(uploads[id])]]

\* app.get('/upload-status/:uploadId'): one whole handler invocation.
GetStatusOf(Ids) ==
    /\ \E id \in Ids :
          last' = [Idle EXCEPT !.kind = "status", !.req = [uploadId |-> id],
                               !.status = StatusOf(id).status,
                               !.body = StatusOf(id).body]
    /\ UNCHANGED <<uploads, chunks, files>>

GetStatus == GetStatusOf(UploadIds) /\ UNCHANGED clientVars

\* Chunk requests with any metadata, an index that some totalChunks allows and
\* one payload, and requests without a chunk part.
SessionRequests ==
    {req \in ChunkRequests \cup NoFileRequests :
        /\ req.chunkIndex < MaxChunks
        /\ req.hasFile => req.bytes = <<1>>}

PostUploadForSession ==
    /\ Len(files) < MaxMerges
    /\ \E req \in SessionRequests : ReceiveChunk(req, {NoIndex} \cup Range(MaxChunks))
    /\ UNCHANGED clientVars

\* Chunk requests of two uploads side by side.
TwoUploadRequests ==
    [uploadId : BothIds, chunkIndex : 0 .. 1, totalChunks : 1 .. 2,
     fileName : {"a.bin"}, fileSize : {MaxFileSize}, bytes : {<<1>>},
     hasFile : {TRUE}]

PostUploadOfEither ==
    /\ Len(files) < MaxMerges
    /\ \E req \in TwoUploadRequests : ReceiveChunk(req, {NoIndex} \cup Range(MaxChunks))
    /\ UNCHANGED clientVars

GetStatusOfEither == GetStatusOf(BothIds) /\ UNCHANGED clientVars

\* The chunk requests of one file are all on their way and reach the handler
\* one at a time, in any order, each exactly once; no read fails.
ArriveChunk ==
    /\ pc = "network"
    /\ \E req \in inflight :
          /\ ReceiveChunk(req, {NoIndex})
          /\ inflight' = inflight \ {req}
    /\ UNCHANGED <<chunkSize, maxRetries, observers, call, pc, chunkIndex, attempt,
                   lastError, uploadedBytes, trace, result>>

-----------------------------------------------------------------------------
(* Client: uploadFile, resumeUpload and uploadChunkWithRetry *)

GeneratedId == "upload-generated"

\* The index is compared with a 1-based position.
IncludesOneBased(seq, x) == \E k \in DOMAIN seq : seq[k] = x + 1

Includes(seq, x) == \E k \in DOMAIN seq : seq[k] = x

Log(events) == trace' = trace \o events

\* Math.pow(2, n) for an integer n >= 0.
RECURSIVE Pow2(_)
Pow2(n) == IF n <= 0 THEN 1 ELSE 2 * Pow2(n - 1)

\* A delay growing by one second per retry.
BackoffMsLinear(n) == (n + 1) * 1000

\* Math.pow(2, attempt) * 1000, the argument of delay() in line 128.
BackoffMs(n) == Pow2(n) * 1000

TheChunk == ChunkOf(call.file, chunkIndex)

\* uploadFile(file, uploadUrl, uploadId?): lines 53-57, up to the loop.
CallUploadFile ==
    /\ pc = "idle"
    /\ \E file \in ClientFiles, uploadId \in {""} \cup UploadIds :
          call' = [op |-> "uploadFile", file |-> file,
                   uploadId |-> IF uploadId = "" THEN GeneratedId ELSE uploadId,
                   completedChunks |-> <<>>]
    /\ uploadedBytes' = 0
    /\ chunkIndex' = 0
    /\ pc' = "loop"
    /\ UNCHANGED <<chunkSize, maxRetries, observers, attempt, lastError, inflight,
                   trace, result>>
    /\ UNCHANGED serverVars

RECURSIVE SortedSeq(_)
SortedSeq(S) ==
    IF S = {} THEN <<>>
    ELSE LET m == CHOOSE x \in S : \A y \in S : x <= y
         IN  <<m>> \o SortedSeq(S \ {m})

\* The count of bytes starts at 0 as in uploadFile.
SeededBytesZero(completedChunks) == 0

\* completedChunks.length * this.chunkSize (line 176).
SeededBytes(completedChunks) == Len(completedChunks) * chunkSize

\* resumeUpload(file, uploadUrl, uploadId, completedChunks): lines 175-176.
CallResumeUpload ==
    /\ pc = "idle"
    /\ \E file \in ClientFiles, uploadId \in UploadIds :
          \E done \in SUBSET Range(calculateTotalChunks(file.size)) :
             /\ call' = [op |-> "resumeUpload", file |-> file, uploadId |-> uploadId,
                         completedChunks |-> SortedSeq(done)]
             /\ uploadedBytes' = SeededBytes(SortedSeq(done))
    /\ chunkIndex' = 0
    /\ pc' = "loop"
    /\ UNCHANGED <<chunkSize, maxRetries, observers, attempt, lastError, inflight,
                   trace, result>>
    /\ UNCHANGED serverVars

\* Lines 181-183: a chunk listed in completedChunks is passed over.
SkipChunk ==
    /\ pc = "loop"
    /\ chunkIndex < calculateTotalChunks(call.file.size)
    /\ Includes(call.completedChunks, chunkIndex)
    /\ chunkIndex' = chunkIndex + 1
    /\ UNCHANGED <<chunkSize, maxRetries, observers, call, pc, attempt, lastError,
                   uploadedBytes, inflight, trace, result>>
    /\ UNCHANGED serverVars

\* The loop test of lines 60 / 179 fails: the call resolves with success.
ReturnSuccess ==
    /\ pc = "loop"
    /\ chunkIndex >= calculateTotalChunks(call.file.size)
    /\ result' = [success |-> TRUE, uploadId |-> call.uploadId,
                  message |-> IF call.op = "uploadFile"
                              THEN "File uploaded successfully"
                              ELSE "File upload resumed and completed successfully"]
    /\ pc' = "done"
    /\ UNCHANGED <<chunkSize, maxRetries, observers, call, chunkIndex, attempt,
                   lastError, uploadedBytes, inflight, trace>>
    /\ UNCHANGED serverVars

\* Lines 61-74 / 185-198: the chunk is cut and uploadChunkWithRetry entered.
BeginChunk ==
    /\ pc = "loop"
    /\ chunkIndex < calculateTotalChunks(call.file.size)
    /\ ~Includes(call.completedChunks, chunkIndex)
    /\ lastError' = NoError
    /\ attempt' = 0
    /\ pc' = "try"
    /\ UNCHANGED <<chunkSize, maxRetries, observers, call, chunkIndex, uploadedBytes,
                   inflight, trace, result>>
    /\ UNCHANGED serverVars

\* One attempt too many.
MoreAttemptsInclusive(n) == n <= maxRetries

\* The loop test of line 119.
MoreAttempts(n) == n < maxRetries

\* Every chunk is counted with the full chunk size.
BytesAfterFullChunk == uploadedBytes + chunkSize

\* uploadedBytes += chunk.size (lines 76 / 200).
BytesAfterChunk == uploadedBytes + Len(TheChunk)

\* (uploadedBytes / file.size) * 100 of lines 83 / 207, as a fraction.
Percentage(uploaded, total) == [num |-> uploaded * 100, den |-> total]

\* onChunkComplete is called before onProgress.
ChunkDoneCompleteFirst ==
    <<[e |-> "ok", chunkIndex |-> chunkIndex, attempt |-> attempt]>>
    \o
    (IF observers.onChunkComplete
     THEN <<[e |-> "chunkComplete", chunkIndex |-> chunkIndex,
             totalChunks |-> calculateTotalChunks(call.file.size)]>>
     ELSE <<>>)
    \o
    (IF observers.onProgress
     THEN <<[e |-> "progress", uploadedBytes |-> BytesAfterChunk,
             totalBytes |-> call.file.size,
             percentage |-> Percentage(BytesAfterChunk, call.file.size),
             currentChunk |-> chunkIndex + 1,
             totalChunks |-> calculateTotalChunks(call.file.size)]>>
     ELSE <<>>)

\* Lines 76-92 / 200-216 after uploadChunkWithRetry returned.
ChunkDone ==
    <<[e |-> "ok", chunkIndex |-> chunkIndex, attempt |-> attempt]>>
    \o
    (IF observers.onProgress
     THEN <<[e |-> "progress", uploadedBytes |-> BytesAfterChunk,
             totalBytes |-> call.file.size,
             percentage |-> Percentage(BytesAfterChunk, call.file.size),
             currentChunk |-> chunkIndex + 1,
             totalChunks |-> calculateTotalChunks(call.file.size)]>>
     ELSE <<>>)
    \o
    (IF observers.onChunkComplete
     THEN <<[e |-> "chunkComplete", chunkIndex |-> chunkIndex,
             totalChunks |-> calculateTotalChunks(call.file.size)]>>
     ELSE <<>>)

\* The fetch is sent and the loop goes on without awaiting its outcome.
SendChunkNoAwait ==
    /\ pc = "try"
    /\ MoreAttempts(attempt)
    /\ inflight' = inflight \cup {ChunkRequest(call.file, call.uploadId, chunkIndex)}
    /\ Log(<<[e |-> "send", chunkIndex |-> chunkIndex, attempt |-> attempt]>>)
    /\ chunkIndex' = chunkIndex + 1
    /\ pc' = "loop"
    /\ UNCHANGED <<chunkSize, maxRetries, observers, call, attempt, lastError,
                   uploadedBytes, result>>
    /\ UNCHANGED serverVars

\* Lines 119-121 and 148-155: the fetch of one attempt is sent.
SendChunk ==
    /\ pc = "try"
    /\ MoreAttempts(attempt)
    /\ inflight' = inflight \cup {ChunkRequest(call.file, call.uploadId, chunkIndex)}
    /\ Log(<<[e |-> "send", chunkIndex |-> chunkIndex, attempt |-> attempt]>>)
    /\ pc' = "await"
    /\ UNCHANGED <<chunkSize, maxRetries, observers, call, chunkIndex, attempt,
                   lastError, uploadedBytes, result>>
    /\ UNCHANGED serverVars

\* response.ok: uploadChunk resolves, uploadChunkWithRetry returns (line 122)
\* and the loop body of uploadFile / resumeUpload runs to its end.
Resolved ==
    /\ pc = "await"
    /\ inflight' = inflight \ {ChunkRequest(call.file, call.uploadId, chunkIndex)}
    /\ uploadedBytes' = BytesAfterChunk
    /\ Log(ChunkDone)
    /\ chunkIndex' = chunkIndex + 1
    /\ pc' = "loop"
    /\ UNCHANGED <<chunkSize, maxRetries, observers, call, attempt, lastError, result>>

\* The attempt succeeds, whatever the server does with it.
ResponseOk == Resolved /\ UNCHANGED serverVars

\* onError is kept from the caller.
GiveUpSilently(error) ==
    [events |-> <<>>,
     result |-> [success |-> FALSE, uploadId |-> call.uploadId,
                 message |-> IF error # NoError THEN error.kind
                             ELSE "Upload failed after retries"]]

\* Lines 133-137 and the catch of lines 100-106 / 224-230: what is reported
\* to onError and what the call resolves to (error.kind is error.message).
GiveUp(error) ==
    [events |-> IF observers.onError /\ error # NoError
                THEN <<[e |-> "error", error |-> error, chunkIndex |-> chunkIndex]>>
                ELSE <<>>,
     result |-> [success |-> FALSE, uploadId |-> call.uploadId,
                 message |-> IF error # NoError THEN error.kind
                             ELSE "Upload failed after retries"]]

\* The retry test of line 126 after the failed attempt number n.
MayRetry(n) == n < maxRetries - 1

\* fetch rejects or the response is not ok: the catch of lines 123-130, and,
\* when no delay is awaited, the rest of the loop up to the next await.
Rejected(Kinds) ==
    /\ pc = "await"
    /\ inflight' = inflight \ {ChunkRequest(call.file, call.uploadId, chunkIndex)}
    /\ \E kind \in Kinds :
          LET failed == [e |-> "failed", chunkIndex |-> chunkIndex, attempt |-> attempt]
              \* the Error object this attempt threw
              error == [kind |-> kind, chunkIndex |-> chunkIndex, attempt |-> attempt]
          IN  /\ lastError' = error
              /\ IF MayRetry(attempt)
                 THEN /\ Log(<<failed, [e |-> "delay", ms |-> BackoffMs(attempt)]>>)
                      /\ pc' = "backoff"
                      /\ UNCHANGED <<attempt, result>>
                 ELSE /\ attempt' = attempt + 1
                      /\ IF MoreAttempts(attempt + 1)
                         THEN /\ Log(<<failed>>)
                              /\ pc' = "try"
                              /\ UNCHANGED result
                         ELSE /\ Log(<<failed>> \o GiveUp(lastError').events)
                              /\ result' = GiveUp(lastError').result
                              /\ pc' = "done"
    /\ UNCHANGED <<chunkSize, maxRetries, observers, call, chunkIndex, uploadedBytes>>

\* The attempt fails, whatever the server does with it.
ResponseFailed == Rejected(Errors) /\ UNCHANGED serverVars

\* Lines 119 and 133-137 when the loop of attempts makes no pass: lastError is
\* still null, onError is not called and a fresh Error is thrown.
AttemptsOver ==
    /\ pc = "try"
    /\ ~MoreAttempts(attempt)
    /\ Log(GiveUp(lastError).events)
    /\ result' = GiveUp(lastError).result
    /\ pc' = "done"
    /\ UNCHANGED <<chunkSize, maxRetries, observers, call, chunkIndex, attempt,
                   lastError, uploadedBytes, inflight>>
    /\ UNCHANGED serverVars

\* The timer of delay() fires: the next attempt of the loop of line 119.
BackoffElapsed ==
    /\ pc = "backoff"
    /\ attempt' = attempt + 1
    /\ pc' = "try"
    /\ UNCHANGED <<chunkSize, maxRetries, observers, call, chunkIndex, lastError,
                   uploadedBytes, inflight, trace, result>>
    /\ UNCHANGED serverVars

-----------------------------------------------------------------------------
(* Client and server together: the fetch of uploadChunk reaches the handler *)

\* The request of the attempt in flight.
TheRequest == ChunkRequest(call.file, call.uploadId, chunkIndex)

\* The handler runs on the request in flight; any read of mergeChunks may fail.
Handled == ReceiveChunk(TheRequest, {NoIndex} \cup Range(MaxChunks))

\* fetch rejects before the request reached the server.
RequestLost == Rejected({"network"}) /\ UNCHANGED serverVars

\* The handler answers with res.json: response.ok holds.
Delivered ==
    /\ pc = "await"
    /\ Handled
    /\ last'.status = 200
    /\ Resolved

\* The handler answers with status 500: response.ok is false (line 157).
ServerFailed ==
    /\ pc = "await"
    /\ Handled
    /\ last'.status = 500
    /\ Rejected({"status500"})

\* The handler ran, and fetch rejects because the response never arrives.
ResponseLost ==
    /\ pc = "await"
    /\ Handled
    /\ Rejected({"network"})

\* What GET /upload-status tells of the received chunks (none when the
\* session is not found).
ReceivedBy(id) == IF id \in DOMAIN uploads THEN uploads[id].receivedChunks ELSE {}

\* After uploadFile resolved to a failure the caller resumes the same file under
\* the same uploadId with the same service, completedChunks being the indices
\* the server holds.
ResumeInterrupted ==
    /\ pc = "done"
    /\ call.op = "uploadFile"
    /\ ~result.success
    /\ call' = [call EXCEPT !.op = "resumeUpload",
                            !.completedChunks = SortedSeq(ReceivedBy(call.uploadId))]
    /\ uploadedBytes' = SeededBytes(SortedSeq(ReceivedBy(call.uploadId)))
    /\ chunkIndex' = 0
    /\ pc' = "loop"
    /\ UNCHANGED <<chunkSize, maxRetries, observers, attempt, lastError, inflight,
                   trace, result>>
    /\ UNCHANGED serverVars

-----------------------------------------------------------------------------
(* The chunk plan alone *)

\* One pass of the loop of lines 60-63 and 76 with nothing but the cutting:
\* start, end and the slice of the next chunk.
CutChunk ==
    /\ pc = "plan"
    /\ chunkIndex < calculateTotalChunks(call.file.size)
    /\ LET start == chunkIndex * chunkSize
           end == Min(start + chunkSize, call.file.size)
       IN  Log(<<[e |-> "cut", chunkIndex |-> chunkIndex, start |-> start,
                  end |-> end, chunk |-> Slice(call.file, start, end)]>>)
    /\ uploadedBytes' = uploadedBytes + Len(TheChunk)
    /\ chunkIndex' = chunkIndex + 1
    /\ UNCHANGED <<chunkSize, maxRetries, observers, call, pc, attempt, lastError,
                   inflight, result>>
    /\ UNCHANGED serverVars

-----------------------------------------------------------------------------
(* Specifications *)

InitServer ==
    /\ uploads = <<>>
    /\ chunks = <<>>
    /\ files = <<>>
    /\ last = Idle

InitClientIdle ==
    /\ chunkSize = DefaultChunkSize
    /\ maxRetries = DefaultMaxRetries
    /\ observers = NoObservers
    /\ call = NoCall
    /\ pc = "idle"
    /\ chunkIndex = 0
    /\ attempt = 0
    /\ lastError = NoError
    /\ uploadedBytes = 0
    /\ inflight = {}
    /\ trace = <<>>
    /\ result = None

\* The server alone, under arbitrary chunk requests.
InitS == InitServer /\ InitClientIdle

NextServer ==
    \/ PostUpload
    \/ GetStatus

SpecServer == InitS /\ [][NextServer]_vars

\* The server receiving the chunks of one file, cut as uploadFile cuts them.
InitOrder ==
    /\ InitServer
    /\ chunkSize \in 1 .. MaxChunkSize
    /\ maxRetries = DefaultMaxRetries
    /\ observers = NoObservers
    /\ \E file \in [name : FileNames, size : 1 .. MaxArrivingSize] :
          /\ call = [op |-> "uploadFile", file |-> file, uploadId |-> "u1",
                     completedChunks |-> <<>>]
          /\ inflight = {ChunkRequest(file, "u1", i) :
                            i \in Range(calculateTotalChunks(file.size))}
    /\ pc = "network"
    /\ chunkIndex = 0
    /\ attempt = 0
    /\ lastError = NoError
    /\ uploadedBytes = 0
    /\ trace = <<>>
    /\ result = None

NextOrder == ArriveChunk

\* The client alone: every attempt may succeed or fail.
Options ==
    [chunkSize : 0 .. MaxChunkSize, maxRetries : 0 .. MaxRetriesOpt,
     observers : {NoObservers, AllObservers}]

InitClient ==
    /\ InitServer
    /\ \E options \in Options :
          LET service == ChunkUploadService(options)
          IN  /\ chunkSize = service.chunkSize
              /\ maxRetries = service.maxRetries
              /\ observers = service.observers
    /\ call = NoCall
    /\ pc = "idle"
    /\ chunkIndex = 0
    /\ attempt = 0
    /\ lastError = NoError
    /\ uploadedBytes = 0
    /\ inflight = {}
    /\ trace = <<>>
    /\ result = None

NextClient ==
    \/ CallUploadFile
    \/ CallResumeUpload
    \/ SkipChunk
    \/ BeginChunk
    \/ SendChunk
    \/ ResponseOk
    \/ ResponseFailed
    \/ BackoffElapsed
    \/ ReturnSuccess

SpecClient == InitClient /\ [][NextClient]_vars

SpecOrder == InitOrder /\ [][NextOrder]_vars

\* Client and server together: each attempt may be lost on the way, handled and
\* answered, or handled with the answer lost; a failed uploadFile is resumed once.
InitEndToEnd ==
    /\ InitServer
    /\ chunkSize \in 1 .. MaxChunkSize
    /\ maxRetries \in 1 .. MaxRetriesEndToEnd
    /\ observers = NoObservers
    /\ call = NoCall
    /\ pc = "idle"
    /\ chunkIndex = 0
    /\ attempt = 0
    /\ lastError = NoError
    /\ uploadedBytes = 0
    /\ inflight = {}
    /\ trace = <<>>
    /\ result = None

NextEndToEnd ==
    \/ CallUploadFile
    \/ ResumeInterrupted
    \/ SkipChunk
    \/ BeginChunk
    \/ SendChunk
    \/ RequestLost
    \/ Delivered
    \/ ServerFailed
    \/ ResponseLost
    \/ BackoffElapsed
    \/ ReturnSuccess

SpecEndToEnd == InitEndToEnd /\ [][NextEndToEnd]_vars

\* The chunk plan of every file size and chunk size, cut chunk by chunk.
InitPlan ==
    /\ InitServer
    /\ chunkSize \in 1 .. MaxPlanChunkSize
    /\ maxRetries = DefaultMaxRetries
    /\ observers = NoObservers
    /\ \E size \in 1 .. MaxPlanFileSize :
          call = [op |-> "uploadFile", file |-> [name |-> "a.bin", size |-> size],
                  uploadId |-> "u1", completedChunks |-> <<>>]
    /\ pc = "plan"
    /\ chunkIndex = 0
    /\ attempt = 0
    /\ lastError = NoError
    /\ uploadedBytes = 0
    /\ inflight = {}
    /\ trace = <<>>
    /\ result = None

NextPlan == CutChunk

SpecPlan == InitPlan /\ [][NextPlan]_vars

\* The client alone, constructed with any options, negative ones too.
AnyOptions ==
    [chunkSize : (0 - MaxNegativeOption) .. 1, maxRetries : (0 - MaxNegativeOption) .. 1,
     observers : {NoObservers, AllObservers}]

InitAnyOptions ==
    /\ InitServer
    /\ \E options \in AnyOptions :
          LET service == ChunkUploadService(options)
          IN  /\ chunkSize = service.chunkSize
              /\ maxRetries = service.maxRetries
              /\ observers = service.observers
    /\ call = NoCall
    /\ pc = "idle"
    /\ chunkIndex = 0
    /\ attempt = 0
    /\ lastError = NoError
    /\ uploadedBytes = 0
    /\ inflight = {}
    /\ trace = <<>>
    /\ result = None

NextAnyOptions ==
    \/ NextClient
    \/ AttemptsOver

SpecAnyOptions == InitAnyOptions /\ [][NextAnyOptions]_vars

\* The server alone, under chunk and status requests of two uploads.
NextTwoUploads ==
    \/ PostUploadOfEither
    \/ GetStatusOfEither

SpecTwoUploads == InitS /\ [][NextTwoUploads]_vars

\* The server alone, under chunk requests that differ in their metadata.
NextSessions ==
    \/ PostUploadForSession
    \/ GetStatus

SpecSessions == InitS /\ [][NextSessions]_vars

-----------------------------------------------------------------------------
(* Claims about the server *)

IsChunk == last.kind = "chunk" /\ last.req.hasFile

\* C1: mergeChunks is invoked at most once for any uploadId, whatever chunk
\* requests arrive (re-delivery after completion included).
AtMostOneReassembly == \A id \in UploadIds : MergeCalls(id) <= 1

\* C2: a chunk request invokes reassembly exactly when, after inserting its
\* index, the received set has as many elements as the totalChunks recorded in
\* the session, and a successful request is answered "completed" exactly then.
CompletionIffSessionTotal ==
    IsChunk =>
        /\ last.merged <=> (Cardinality(last.receivedAfter) = last.sessionTotal)
        /\ last.status = 200 =>
              (last.completed <=> (Cardinality(last.receivedAfter) = last.sessionTotal))

\* C4: whenever reassembly is invoked, the received set is exactly
\* 0 .. totalChunks-1 of the session.
MergedSetIsRange == last.merged => last.receivedAfter = Range(last.sessionTotal)

\* C5: when a read fails during mergeChunks, the session stays in the registry,
\* every chunk staged when reassembly started is still staged, and the request
\* is answered with a failure.
FailedMergePreserves ==
    (last.merged /\ last.readFailed) =>
        /\ last.req.uploadId \in DOMAIN uploads
        /\ last.stagedAtMerge \subseteq Staged(chunks, last.req.uploadId)
        /\ last.status = 500
        /\ ~last.completed

\* C6: delivering an index that is already in the live session's received set
\* leaves the received set as it was, leaves one staged unit for the key,
\* holding the new bytes, and neither reassembles nor completes the session.
IdempotentRedelivery ==
    (IsChunk /\ ~last.created /\ last.req.chunkIndex \in last.receivedBefore) =>
        /\ last.req.uploadId \in DOMAIN uploads
        /\ uploads[last.req.uploadId].receivedChunks = last.receivedBefore
        /\ <<last.req.uploadId, last.req.chunkIndex>> \in DOMAIN chunks
        /\ chunks[<<last.req.uploadId, last.req.chunkIndex>>] = last.req.bytes
        /\ ~last.merged
        /\ ~last.completed

\* The concatenation of the chunks of a file, cut as uploadFile cuts them, in
\* ascending index order from chunk i on.
RECURSIVE ChunksInOrder(_, _)
ChunksInOrder(file, i) ==
    IF i >= calculateTotalChunks(file.size) THEN <<>>
    ELSE ChunkOf(file, i) \o ChunksInOrder(file, i + 1)

\* C3: when the chunks of a file have each arrived once, in any order, the
\* request that brought the last one reassembled the file: there is one
\* artifact, it is the chunks concatenated in ascending index order, and its
\* length is fileSize; before that no artifact exists.
ReassembledInIndexOrder ==
    /\ inflight # {} => (files = <<>> /\ ~last.merged)
    /\ inflight = {} =>
          /\ last.merged /\ last.completed
          /\ Len(files) = 1
          /\ files[1].ended
          /\ files[1].content = ChunksInOrder(call.file, 0)
          /\ Len(files[1].content) = call.file.size

\* All chunks of a three-chunk file arrived, chunk 0 last.
OutOfOrderArrivalMerged ==
    /\ pc = "network"
    /\ inflight = {}
    /\ calculateTotalChunks(call.file.size) >= 3
    /\ last.req.chunkIndex = 0
    /\ last.completed

\* C15: right after a chunk request that completed its session with a
\* reassembly that went through, the session is out of the registry and no
\* chunk of that uploadId is staged any more, so that a status query finds
\* nothing.
PurgedAfterSuccess ==
    (IsChunk /\ last.completed) =>
        /\ last.req.uploadId \notin DOMAIN uploads
        /\ Staged(chunks, last.req.uploadId) = {}

IsStatus == last.kind = "status"

\* C16: a status query for a live session answers with the totalChunks of the
\* session, exactly the indices of its received set and
\* progress = 100 * |receivedChunks| / totalChunks, a value from 0 to 100; for an
\* uploadId without a session it answers not-found; the registry it reports on
\* is left as it was.
StatusReport ==
    IsStatus =>
        LET id == last.req.uploadId
        IN  IF id \in DOMAIN uploads
            THEN /\ last.status = 200
                 /\ last.body.success
                 /\ last.body.totalChunks = uploads[id].totalChunks
                 /\ last.body.receivedChunks = uploads[id].receivedChunks
                 /\ last.body.progress.num * uploads[id].totalChunks
                       = 100 * Cardinality(uploads[id].receivedChunks)
                             * last.body.progress.den
                 /\ 0 <= last.body.progress.num
                 /\ last.body.progress.num <= 100 * last.body.progress.den
            ELSE /\ last.status = 404
                 /\ ~last.body.success

Session(registry, id) == IF id \in DOMAIN registry THEN <<registry[id]>> ELSE <<>>

StagedChunks(store, id) == [k \in {x \in DOMAIN store : x[1] = id} |-> store[k]]

Handling(id) == last'.kind # None /\ last'.req.uploadId = id

DeleteAfterClose ==
    \A k \in DOMAIN last.ops :
        last.ops[k].op = "unlink" =>
            \E c \in 1 .. (k - 1) :
                /\ last.ops[c].op = "end"
                /\ \A i \in Range(last.sessionTotal) :
                      \E w \in 1 .. (c - 1) : last.ops[w] = FsOp("write", i)

SameMetadata(a, b) ==
    /\ a.fileName = b.fileName
    /\ a.fileSize = b.fileSize
    /\ a.totalChunks = b.totalChunks

\* C19: the first chunk request for an uploadId without a session creates the
\* session with the fileName, fileSize and totalChunks of that request and an
\* empty received set; as long as the session is in the registry these three
\* never change, whatever the later requests carry, and the received set only
\* grows.
SessionMetadataFixed ==
    [][/\ \A id \in DOMAIN uploads \cap DOMAIN uploads' :
             /\ SameMetadata(uploads'[id], uploads[id])
             /\ uploads[id].receivedChunks \subseteq uploads'[id].receivedChunks
       /\ \A id \in DOMAIN uploads' \ DOMAIN uploads :
             /\ last'.kind = "chunk"
             /\ last'.created
             /\ last'.req.uploadId = id
             /\ SameMetadata(uploads'[id], last'.req)
             /\ uploads'[id].receivedChunks \subseteq {last'.req.chunkIndex}
       /\ (last'.kind = "chunk" /\ last'.req.uploadId \notin DOMAIN uploads) =>
             /\ last'.created
             /\ last'.receivedBefore = {}
             /\ last'.sessionTotal = last'.req.totalChunks]_vars

\* A later chunk with another fileName, fileSize and totalChunks was taken into
\* a session that keeps what its first request carried.
LaterMetadataIgnored ==
    /\ IsChunk
    /\ ~last.created
    /\ last.req.uploadId \in DOMAIN uploads
    /\ last.req.fileName # uploads[last.req.uploadId].fileName
    /\ last.req.fileSize # uploads[last.req.uploadId].fileSize
    /\ last.req.totalChunks # uploads[last.req.uploadId].totalChunks
    /\ Cardinality(uploads[last.req.uploadId].receivedChunks) >= 2

\* C24: in every state of the server, each index in the received set of a
\* session in the registry has its chunk staged in the chunk store under
\* (uploadId, index).
ReceivedChunksStaged ==
    \A id \in DOMAIN uploads : uploads[id].receivedChunks \subseteq Staged(chunks, id)

-----------------------------------------------------------------------------
(* Claims about the client *)

Events(e) == {k \in DOMAIN trace : trace[k].e = e}

Of(e, i) == {k \in Events(e) : trace[k].chunkIndex = i}

SentChunks == {trace[k].chunkIndex : k \in Events("send")}

Exhausted(i) == Cardinality(Of("failed", i)) >= maxRetries

Failed == pc = "done" /\ ~result.success

\* C7: a chunk is attempted at most maxRetries times; when an attempt succeeds
\* after k < maxRetries failures, that was attempt k+1, the retry cycle is over
\* and onError was not called; after maxRetries failures there were exactly
\* maxRetries attempts and the call has failed.
RetryBound ==
    \A i \in SentChunks :
        LET sent == Cardinality(Of("send", i))
            failures == Cardinality(Of("failed", i))
        IN  /\ sent <= maxRetries
            /\ Of("ok", i) # {} =>
                  /\ failures < maxRetries
                  /\ sent = failures + 1
                  /\ Cardinality(Of("ok", i)) = 1
                  /\ Of("error", i) = {}
                  /\ chunkIndex > i
            /\ failures >= maxRetries =>
                  /\ sent = maxRetries
                  /\ Of("ok", i) = {}
                  /\ Failed

\* A chunk went through after two failed attempts and a later one ran out of
\* attempts.
RetriedThenExhausted ==
    /\ Failed
    /\ \E k \in Events("ok") : trace[k].attempt = 2
    /\ Exhausted(chunkIndex)

\* C8: a failed attempt n that is not the last allowed one is followed by a
\* wait of 2^n seconds and then by attempt n+1; no wait follows the last allowed
\* attempt, nor a success; successive waits double.
ExponentialBackoff ==
    \A k \in DOMAIN trace :
        /\ trace[k].e = "failed" =>
              IF trace[k].attempt < maxRetries - 1
              THEN /\ k + 1 \in DOMAIN trace
                   /\ trace[k + 1] = [e |-> "delay", ms |-> 1000 * (2 ^ trace[k].attempt)]
                   /\ k + 2 \in DOMAIN trace =>
                         trace[k + 2] = [e |-> "send", chunkIndex |-> trace[k].chunkIndex,
                                         attempt |-> trace[k].attempt + 1]
              ELSE ~(k + 1 \in DOMAIN trace /\ trace[k + 1].e = "delay")
        /\ trace[k].e = "delay" =>
              /\ k > 1 /\ trace[k - 1].e = "failed"
              /\ (k + 3 \in DOMAIN trace /\ trace[k + 3].e = "delay") =>
                    trace[k + 3].ms = 2 * trace[k].ms

\* The third wait of a retry cycle is over and the fourth attempt is sent.
ThirdBackoffElapsed ==
    \E k \in Events("delay") :
        /\ trace[k].ms = 4000
        /\ k + 1 \in DOMAIN trace
        /\ trace[k + 1].e = "send"

LastFailure == trace[CHOOSE k \in Events("failed") : \A j \in Events("failed") : j <= k]

\* C9: when chunk i runs out of attempts, onError (if supplied) is called once,
\* with the error of the last failed attempt and i; the call resolves to
\* {success: false, uploadId, message}, the message that error's; no chunk
\* after i is ever sent.
ExhaustionIsFatal ==
    /\ \A i \in SentChunks : Exhausted(i) => (Failed /\ chunkIndex = i)
    /\ Events("error") # {} => Failed
    /\ Failed =>
          /\ LastFailure.chunkIndex = chunkIndex
          /\ Cardinality(Events("error")) = (IF observers.onError THEN 1 ELSE 0)
          /\ \A k \in Events("error") :
                /\ trace[k].error.chunkIndex = LastFailure.chunkIndex
                /\ trace[k].error.attempt = LastFailure.attempt
                /\ trace[k].chunkIndex = chunkIndex
                /\ result.message = trace[k].error.kind
          /\ result.success = FALSE
          /\ result.uploadId = call.uploadId
          /\ result.message \in Errors
          /\ \A k \in Events("send") : trace[k].chunkIndex <= chunkIndex
          /\ inflight = {}

\* The second of three chunks ran out of attempts after a retry, with onError
\* supplied.
MiddleChunkExhausted ==
    /\ Failed
    /\ observers.onError
    /\ chunkIndex = 1
    /\ calculateTotalChunks(call.file.size) = 3
    /\ Cardinality(Of("failed", 1)) >= 2

\* C10: at most one request is in flight; chunks are sent in ascending index
\* order; the first attempt of a chunk comes after the chunk sent before it went
\* through.
StrictlySequential ==
    /\ Cardinality(inflight) <= 1
    /\ inflight # {} => pc = "await"
    /\ \A k \in Events("send") : \A p \in Events("send") :
          p < k =>
            /\ trace[p].chunkIndex <= trace[k].chunkIndex
            /\ trace[k].attempt = 0 =>
                  /\ trace[p].chunkIndex < trace[k].chunkIndex
                  /\ \E q \in Of("ok", trace[p].chunkIndex) : p < q /\ q < k

\* The third chunk is in flight after the first needed a retry.
ThirdChunkInFlight ==
    /\ pc = "await"
    /\ chunkIndex = 2
    /\ inflight # {}
    /\ Of("failed", 0) # {}
    /\ Of("ok", 1) # {}

Resumed == call.op = "resumeUpload"

Completed == {call.completedChunks[k] : k \in DOMAIN call.completedChunks}

Succeeded == pc = "done" /\ result.success

\* C11: resumeUpload never sends a chunk whose index is in completedChunks; when
\* it resolves to success, each index of 0..totalChunks-1 outside completedChunks
\* went through exactly once, in ascending order, and no other did.
ResumeSkipsCompleted ==
    Resumed =>
        /\ SentChunks \cap Completed = {}
        /\ Succeeded =>
              /\ {trace[k].chunkIndex : k \in Events("ok")}
                    = Range(calculateTotalChunks(call.file.size)) \ Completed
              /\ \A k \in Events("ok") : \A p \in Events("ok") :
                    p < k => trace[p].chunkIndex < trace[k].chunkIndex

\* A resume of three chunks with the middle one completed before went through.
ResumedAroundMiddle ==
    /\ Resumed
    /\ Succeeded
    /\ calculateTotalChunks(call.file.size) = 3
    /\ call.completedChunks = <<1>>
    /\ Cardinality(Events("ok")) = 2

\* C20: in uploadFile and resumeUpload the success of chunk i is followed at
\* once, before any attempt for another chunk, by one onProgress call with
\* currentChunk = i + 1 and then one onChunkComplete call with index i (each if
\* supplied); no other call of the two observers is made, so none is made for a
\* chunk that was skipped or that ran out of attempts.
ObserverEvents ==
    /\ \A k \in Events("ok") :
          LET i == trace[k].chunkIndex
              p == k + 1
              c == IF observers.onProgress THEN k + 2 ELSE k + 1
          IN  /\ observers.onProgress =>
                    /\ p \in DOMAIN trace
                    /\ trace[p].e = "progress"
                    /\ trace[p].currentChunk = i + 1
                    /\ trace[p].totalChunks = calculateTotalChunks(call.file.size)
              /\ observers.onChunkComplete =>
                    /\ c \in DOMAIN trace
                    /\ trace[c].e = "chunkComplete"
                    /\ trace[c].chunkIndex = i
                    /\ trace[c].totalChunks = calculateTotalChunks(call.file.size)
    /\ \A i \in Range(calculateTotalChunks(call.file.size)) :
          LET progressed == {k \in Events("progress") : trace[k].currentChunk = i + 1}
              succeeded == Cardinality(Of("ok", i))
          IN  /\ succeeded <= 1
              /\ Cardinality(progressed) = (IF observers.onProgress THEN succeeded ELSE 0)
              /\ Cardinality(Of("chunkComplete", i))
                    = (IF observers.onChunkComplete THEN succeeded ELSE 0)
              /\ ((Resumed /\ i \in Completed) \/ Exhausted(i)) =>
                    /\ progressed = {}
                    /\ Of("chunkComplete", i) = {}
    /\ \A k \in Events("progress") :
          trace[k].currentChunk - 1 \in Range(calculateTotalChunks(call.file.size))
    /\ \A k \in Events("chunkComplete") :
          trace[k].chunkIndex \in Range(calculateTotalChunks(call.file.size))

\* A resume with observers passed over chunk 0, got chunk 1 through and ran out
\* of attempts on chunk 2.
ObservedSkippedAndExhausted ==
    /\ Resumed
    /\ Failed
    /\ observers.onProgress /\ observers.onChunkComplete
    /\ call.completedChunks = <<0>>
    /\ Of("chunkComplete", 1) # {}
    /\ Exhausted(2)

-----------------------------------------------------------------------------
(* Claims about the progress events *)

\* The byte lengths of the chunks 0..i of a file added up.
RECURSIVE BytesUpTo(_, _)
BytesUpTo(file, i) ==
    IF i < 0 THEN 0 ELSE Len(ChunkOf(file, i)) + BytesUpTo(file, i - 1)

IsLastChunk(i) == i = calculateTotalChunks(call.file.size) - 1

\* C22: in uploadFile the progress event of chunk i carries as uploadedBytes
\* the byte lengths of the chunks 0..i added up; uploadedBytes grows strictly
\* from event to event, never exceeds totalBytes, and on the event of the last
\* chunk it is totalBytes and the percentage is exactly 100.
ProgressAccounting ==
    call.op = "uploadFile" =>
        \A k \in Events("progress") :
            LET i == trace[k].currentChunk - 1
            IN  /\ trace[k].uploadedBytes = BytesUpTo(call.file, i)
                /\ trace[k].totalBytes = call.file.size
                /\ trace[k].uploadedBytes <= trace[k].totalBytes
                /\ trace[k].percentage.num * trace[k].totalBytes
                      = 100 * trace[k].uploadedBytes * trace[k].percentage.den
                /\ \A p \in Events("progress") :
                      p < k => trace[p].uploadedBytes < trace[k].uploadedBytes
                /\ IsLastChunk(i) =>
                      /\ trace[k].uploadedBytes = trace[k].totalBytes
                      /\ trace[k].percentage.num = 100 * trace[k].percentage.den

\* uploadFile went through with a full chunk and a shorter last one, each
\* reported to onProgress.
ProgressReachedTotal ==
    /\ call.op = "uploadFile"
    /\ Succeeded
    /\ chunkSize = 2
    /\ call.file.size = 3
    /\ Cardinality(Events("progress")) = 2

\* C23: every progress event of resumeUpload, for any duplicate-free
\* completedChunks within 0..totalChunks-1, has uploadedBytes <= totalBytes and
\* a percentage of at most 100.
ResumeProgressBounded ==
    Resumed =>
        \A k \in Events("progress") :
            /\ trace[k].uploadedBytes <= trace[k].totalBytes
            /\ trace[k].percentage.num <= 100 * trace[k].percentage.den

\* The byte lengths of the chunks 0..i of a file that resumeUpload transmits.
RECURSIVE BytesSentUpTo(_, _)
BytesSentUpTo(file, i) ==
    IF i < 0 THEN 0
    ELSE (IF i \in Completed THEN 0 ELSE Len(ChunkOf(file, i)))
         + BytesSentUpTo(file, i - 1)

LastChunkIsShort ==
    call.file.size < calculateTotalChunks(call.file.size) * chunkSize

\* C23, amended: the progress event of chunk i in resumeUpload carries
\* completedChunks.length * chunkSize plus the byte lengths of the chunks up to
\* i that were transmitted; this is at most totalChunks * chunkSize, and at most
\* totalBytes (percentage at most 100) unless completedChunks holds a last
\* chunk that is shorter than chunkSize.
ResumeProgressSeeded ==
    Resumed =>
        \A k \in Events("progress") :
            LET i == trace[k].currentChunk - 1
                total == calculateTotalChunks(call.file.size)
            IN  /\ trace[k].uploadedBytes
                      = Cardinality(Completed) * chunkSize + BytesSentUpTo(call.file, i)
                /\ trace[k].totalBytes = call.file.size
                /\ trace[k].percentage
                      = [num |-> 100 * trace[k].uploadedBytes, den |-> call.file.size]
                /\ trace[k].uploadedBytes <= total * chunkSize
                /\ ~(LastChunkIsShort /\ (total - 1) \in Completed) =>
                      /\ trace[k].uploadedBytes <= trace[k].totalBytes
                      /\ trace[k].percentage.num <= 100 * trace[k].percentage.den

\* A resume that lists the shorter last chunk as completed reported more
\* bytes than the file has.
ResumeProgressOvershoots ==
    /\ Resumed
    /\ LastChunkIsShort
    /\ (calculateTotalChunks(call.file.size) - 1) \in Completed
    /\ \E k \in Events("progress") : trace[k].uploadedBytes > trace[k].totalBytes

-----------------------------------------------------------------------------
(* Claims about the chunk plan *)

\* C13: for fileSize >= 1 and chunkSize >= 1, calculateTotalChunks(fileSize) is
\* the least n with n * chunkSize >= fileSize; chunk i covers the bytes from
\* i * chunkSize up to min((i+1) * chunkSize, fileSize), so the chunks are
\* contiguous and do not overlap, each has at least one byte, every chunk but
\* the last has chunkSize bytes, the last has
\* fileSize - chunkSize * (totalChunks - 1), and the lengths add up to fileSize.
ChunkPlan ==
    pc = "plan" =>
        LET size == call.file.size
            total == calculateTotalChunks(size)
        IN  /\ total * chunkSize >= size
            /\ (total - 1) * chunkSize < size
            /\ Len(trace) = chunkIndex
            /\ chunkIndex <= total
            /\ \A k \in DOMAIN trace :
                  LET cut == trace[k]
                  IN  /\ cut.chunkIndex = k - 1
                      /\ cut.start = (k - 1) * chunkSize
                      /\ cut.start = (IF k = 1 THEN 0 ELSE trace[k - 1].end)
                      /\ cut.end > cut.start
                      /\ cut.end <= size
                      /\ cut.chunk = [j \in 1 .. (cut.end - cut.start) |-> cut.start + j]
                      /\ k < total => cut.end - cut.start = chunkSize
                      /\ k = total =>
                            /\ cut.end - cut.start = size - chunkSize * (total - 1)
                            /\ cut.end = size
            /\ uploadedBytes = (IF trace = <<>> THEN 0 ELSE trace[Len(trace)].end)
            /\ chunkIndex = total => uploadedBytes = size

\* A file was cut into three full chunks and a shorter last one.
ShortLastChunkCut ==
    /\ pc = "plan"
    /\ Len(trace) = 4
    /\ chunkIndex = calculateTotalChunks(call.file.size)
    /\ Len(trace[3].chunk) = chunkSize
    /\ Len(trace[4].chunk) < chunkSize

-----------------------------------------------------------------------------
(* Claims about the construction *)

\* C14: no uploadFile or resumeUpload runs with a chunk size or a retry count
\* that is zero or negative: the construction with such an option has failed
\* with InvalidConfiguration.
ConfigurationValid == pc # "idle" => (chunkSize > 0 /\ maxRetries > 0)

-----------------------------------------------------------------------------
(* Claims about client and server together *)

FinalArtifacts(id) == {k \in DOMAIN files : files[k].uploadId = id /\ files[k].ended}

\* C12: when an upload that left chunks on the server is resumed with
\* completedChunks being the indices the server holds, and the resume succeeds,
\* the server has written exactly one finished artifact for the uploadId, and it
\* is the file that one uninterrupted uploadFile delivers: the chunks of the
\* file in ascending index order.
ResumeEquivalence ==
    (Resumed /\ Succeeded /\ call.completedChunks # <<>>) =>
        /\ Cardinality(FinalArtifacts(call.uploadId)) = 1
        /\ \A k \in FinalArtifacts(call.uploadId) :
              files[k].content = ChunksInOrder(call.file, 0)

AllChunksSucceeded ==
    \A i \in Range(calculateTotalChunks(call.file.size)) : Of("ok", i) # {}

\* C21: when every chunk of a file had a successful attempt among its first
\* maxRetries, uploadFile has resolved to success after at most
\* totalChunks * maxRetries attempts, and the server then has reassembled the
\* file exactly once, the artifact being the bytes of the file, and holds no
\* session of the upload any more.
TransferCompletes ==
    (call.op = "uploadFile" /\ pc = "done" /\ call.file.size >= 1
        /\ AllChunksSucceeded) =>
        /\ result.success
        /\ Cardinality(Events("send"))
              <= calculateTotalChunks(call.file.size) * maxRetries
        /\ Cardinality(FinalArtifacts(call.uploadId)) = 1
        /\ \A k \in FinalArtifacts(call.uploadId) :
              files[k].content = ChunksInOrder(call.file, 0)
        /\ call.uploadId \notin DOMAIN uploads

====
